---- MODULE Spec2Model ----
(***************************************************************************)
(* A model of the front end of ShivyC: the diagnostic model (errors.py),   *)
(* the lexer (lexer.py) and the statement parser (parser/statement.py).    *)
(*                                                                         *)
(* Python values are represented as follows.                               *)
(*   - a str that the code indexes (a line, a spelling, a chunk) is a      *)
(*     sequence of one-character strings; Join turns it into a string;     *)
(*   - an optional value is <<>> (None) or <<v>>;                          *)
(*   - an exception is a record whose exc field names its class.           *)
(***************************************************************************)
EXTENDS Integers, Sequences, FiniteSets, TLC

VARIABLES
    e_op,        \* errors: the last operation applied ("none" at the start)
    e_args,      \* errors: the arguments of that operation
    e_res,       \* errors: the object built, or the exception raised instead
    e_str,       \* errors: str() of the object built, once rendered
    symbol_kinds,   \* Lexer.symbol_kinds, as stored by __init__
    keyword_kinds,  \* Lexer.keyword_kinds, as stored by __init__
    registered,     \* the symbol_kinds argument __init__ was given
    code_lines,     \* the argument of tokenize
    li,             \* tokenize: 1-based position of line_with_info in code_lines
    chunk_start,    \* tokenize_line: chunk_start
    chunk_end,      \* tokenize_line: chunk_end
    tokens,         \* tokenize_line: tokens
    all_tokens,     \* tokenize: all_tokens
    l_pc,           \* tokenize: "scan" (in the loop), "done" (returned), "raised"
    l_ret,          \* tokenize: the returned list, <<>> (None) until it returns
    l_err,          \* tokenize: the exception raised, NoError until it raises
    p_tokens,    \* parser: the token sequence being parsed (parser.utils tokens)
    p_op,        \* parser: the last parsing function called ("none" at the start)
    p_index,     \* parser: the index it was called with
    p_res        \* parser: its outcome

vars == <<e_op, e_args, e_res, e_str,
          symbol_kinds, keyword_kinds, registered, code_lines, li, chunk_start,
          chunk_end, tokens, all_tokens, l_pc, l_ret, l_err,
          p_tokens, p_op, p_index, p_res>>

evars == <<e_op, e_args, e_res, e_str>>
lvars == <<symbol_kinds, keyword_kinds, registered, code_lines, li, chunk_start,
           chunk_end, tokens, all_tokens, l_pc, l_ret, l_err>>
pvars == <<p_tokens, p_op, p_index, p_res>>

(***************************************************************************)
(* Python values                                                           *)
(***************************************************************************)
None == <<>>

Some(v) == <<v>>

RECURSIVE Join(_)
\* "".join(chars): the string spelled by a sequence of characters
Join(chars) == IF chars = <<>> THEN "" ELSE Head(chars) \o Join(Tail(chars))

\* seq[a:b] for 0 <= a <= b <= len(seq)
Slice(seq, a, b) == SubSeq(seq, a + 1, b)

\* A token kind: an object with a text_repr; two kinds may share a spelling
\* and are still two kinds, told apart here by name.
TokenKind(name, text_repr) == [name |-> name, text_repr |-> text_repr]

\* Token(kind, content): file_name and line_num are set later by the caller
Token(kind, content) ==
    [kind |-> kind, content |-> content, file_name |-> None, line_num |-> None]

\* str(token): the content when there is one, else the kind's spelling
TokenStr(token) ==
    IF token.content # None THEN token.content[1] ELSE Join(token.kind.text_repr)

(***************************************************************************)
(* errors.py                                                               *)
(***************************************************************************)
AT == 1

GOT == 2

AFTER == 3

NoError == [exc |-> "none", descrip |-> "", file_name |-> None,
            line_num |-> None, amount_parsed |-> None]

\* CompilerError.__init__
CompilerError_init(descrip, file_name, line_num) ==
    [exc |-> "CompilerError", descrip |-> descrip, file_name |-> file_name,
     line_num |-> line_num, amount_parsed |-> None]

\* An exception that is no CompilerError (IndexError, ValueError)
Raised(exc, descrip) ==
    [exc |-> exc, descrip |-> descrip, file_name |-> None,
     line_num |-> None, amount_parsed |-> None]

\* Python truth of an optional str: None and "" are false
TruthyStr(o) == o # None /\ o[1] # ""

\* Python truth of an optional int: None and 0 are false
TruthyInt(o) == o # None /\ o[1] # 0

\* "{}".format(o) of an optional int
FormatInt(o) == IF o = None THEN "None" ELSE ToString(o[1])

\* "{}".format(o) of an optional str
FormatStr(o) == IF o = None THEN "None" ELSE o[1]

\* A variant of CompilerError_str without the form for a file name alone.
CompilerError_strTwoForms(e) ==
    IF TruthyStr(e.file_name) /\ TruthyInt(e.line_num)
    THEN FormatStr(e.file_name) \o ":" \o FormatInt(e.line_num) \o ": error: "
             \o e.descrip
    ELSE "shivyc: error: " \o e.descrip

\* CompilerError.__str__
CompilerError_str(e) ==
    IF TruthyStr(e.file_name) /\ TruthyInt(e.line_num)
    THEN FormatStr(e.file_name) \o ":" \o FormatInt(e.line_num) \o ": error: "
             \o e.descrip
    ELSE IF TruthyStr(e.file_name)
    THEN FormatStr(e.file_name) \o ": error: " \o e.descrip
    ELSE "shivyc: error: " \o e.descrip

\* token_error
token_error(descrip_before, descrip_after, token) ==
    CompilerError_init(descrip_before \o TokenStr(token) \o descrip_after,
                       token.file_name, token.line_num)

\* tokens[i] in Python: defined for -len <= i < len, negative i counts from
\* the end; otherwise IndexError.
PyInRange(toks, i) == -Len(toks) <= i /\ i < Len(toks)

PyAt(toks, i) == IF i >= 0 THEN toks[i + 1] ELSE toks[Len(toks) + i + 1]

\* A variant of ClampIndex that clamps an index past the end to the last
\* position instead of one past it.
ClampIndexLast(index, n) ==
    IF index >= n THEN n - 1 ELSE IF index <= 0 THEN 0 ELSE index

\* ParserError.__init__, lines 99-105: the index after the two boundary tests
ClampIndex(index, n) ==
    IF index >= n THEN n ELSE IF index <= 0 THEN 0 ELSE index

\* A variant of ClampType that examines the selector before the index.
ClampTypeValidated(index, n, message_type) ==
    IF message_type \notin {AT, GOT, AFTER} THEN message_type
    ELSE IF index >= n THEN AFTER
    ELSE IF index <= 0 /\ message_type = AFTER THEN GOT
    ELSE message_type

\* ParserError.__init__, lines 99-107: the message type after the two tests
ClampType(index, n, message_type) ==
    IF index >= n THEN AFTER
    ELSE IF index <= 0 /\ message_type = AFTER THEN GOT
    ELSE message_type

\* A ParserError: a CompilerError that also carries amount_parsed
ParserErrorObject(descrip, token, amount_parsed) ==
    [exc |-> "ParserError", descrip |-> descrip, file_name |-> token.file_name,
     line_num |-> token.line_num, amount_parsed |-> Some(amount_parsed)]

\* ParserError.__init__, lines 109-120: the three forms, on the clamped
\* index and type. amount_parsed is the index as given (line 94).
ParserError_build(message, given, index, toks, message_type) ==
    IF message_type = AT
    THEN IF PyInRange(toks, index)
         THEN ParserErrorObject(
                  message \o " at '" \o TokenStr(PyAt(toks, index)) \o "'",
                  PyAt(toks, index), given)
         ELSE Raised("IndexError", "list index out of range")
    ELSE IF message_type = GOT
    THEN IF PyInRange(toks, index)
         THEN ParserErrorObject(
                  message \o ", got '" \o TokenStr(PyAt(toks, index)) \o "'",
                  PyAt(toks, index), given)
         ELSE Raised("IndexError", "list index out of range")
    ELSE IF message_type = AFTER
    THEN IF PyInRange(toks, index - 1)
         THEN ParserErrorObject(
                  message \o " after '" \o TokenStr(PyAt(toks, index - 1)) \o "'",
                  PyAt(toks, index - 1), given)
         ELSE Raised("IndexError", "list index out of range")
    ELSE Raised("ValueError", "Unknown error message type")

\* ParserError.__init__. With no tokens, line 97 initialises the error as
\* "<message> at beginning of source" and execution continues at line 99:
\* nothing returns there, so the forms below run on the empty list too.
ParserError_init(message, index, toks, message_type) ==
    ParserError_build(message, index, ClampIndex(index, Len(toks)), toks,
                      ClampType(index, Len(toks), message_type))

\* The index of the token ParserError.__init__ reads, after clamping
ParserError_read(index, toks, message_type) ==
    LET i == ClampIndex(index, Len(toks))
        t == ClampType(index, Len(toks), message_type)
    IN  IF t \in {AT, GOT} THEN Some(i)
        ELSE IF t = AFTER THEN Some(i - 1)
        ELSE None

(***************************************************************************)
(* lexer.py                                                                *)
(***************************************************************************)
\* str.isdigit() of one character, over the characters up to U+00FF: the
\* decimal digits and the superscript digits
Digits == {"0", "1", "2", "3", "4", "5", "6", "7", "8", "9", "²", "³", "¹"}

Letters ==
    {"a", "b", "c", "d", "e", "f", "g", "h", "i", "j", "k", "l", "m", "n", "o",
     "p", "q", "r", "s", "t", "u", "v", "w", "x", "y", "z",
     "A", "B", "C", "D", "E", "F", "G", "H", "I", "J", "K", "L", "M", "N", "O",
     "P", "Q", "R", "S", "T", "U", "V", "W", "X", "Y", "Z"}

\* str.isspace() of one character, over the characters up to U+00FF: tab,
\* line feed, vertical tab, form feed, carriage return, the separators
\* U+001C to U+001F, space, next line U+0085 and no-break space U+00A0
IsSpace(c) ==
    c \in {" ", "\t", "\n", "\r", "\f", "", "", "", "", "", "", " "}

\* token_kinds.number and token_kinds.identifier: kinds with no spelling
number == TokenKind("number", <<>>)

identifier == TokenKind("identifier", <<>>)

\* Where sorted() puts a kind among those already placed: after every kind
\* at least as long (the sort is stable and its key is -len(text_repr)).
SortPosition(kind, placed) ==
    Cardinality({i \in 1..Len(placed) :
                    Len(placed[i].text_repr) >= Len(kind.text_repr)})

RECURSIVE SortInto(_, _)
SortInto(kinds, placed) ==
    IF kinds = <<>> THEN placed
    ELSE LET k == Head(kinds)
             p == SortPosition(k, placed)
         IN  SortInto(Tail(kinds),
                      SubSeq(placed, 1, p) \o <<k>> \o SubSeq(placed, p + 1, Len(placed)))

\* A variant of SortKinds that keeps the kinds in the order given.
SortKindsUnsorted(kinds) == kinds

\* Lexer.__init__: sorted(kinds, key=lambda kind: -len(kind.text_repr))
SortKinds(kinds) == SortInto(kinds, <<>>)

\* content.startswith(prefix, start)
StartsWith(content, prefix, start) ==
    /\ start + Len(prefix) <= Len(content)
    /\ Slice(content, start, start + Len(prefix)) = prefix

RECURSIVE FirstMatch(_, _, _)
FirstMatch(kinds, content, start) ==
    IF kinds = <<>> THEN None
    ELSE IF StartsWith(content, Head(kinds).text_repr, start) THEN Some(Head(kinds))
    ELSE FirstMatch(Tail(kinds), content, start)

\* Lexer.match_symbol_kind_at, on the stored list
match_symbol_kind_at(kinds, content, start) == FirstMatch(kinds, content, start)

RECURSIVE match_keyword_kind(_, _)
\* Lexer.match_keyword_kind
match_keyword_kind(kinds, token_repr) ==
    IF kinds = <<>> THEN None
    ELSE IF Head(kinds).text_repr = token_repr THEN Some(Head(kinds))
    ELSE match_keyword_kind(Tail(kinds), token_repr)

\* Lexer.match_number_string: str.isdigit() of a non-empty string
match_number_string(token_repr) ==
    IF token_repr # <<>> /\ \A i \in 1..Len(token_repr) : token_repr[i] \in Digits
    THEN Some(Join(token_repr)) ELSE None

\* The part of a string the pattern has to cover: "$" matches at the end and
\* also before a line feed that ends the string
BeforeDollar(token_repr) ==
    IF token_repr # <<>> /\ token_repr[Len(token_repr)] = "\n"
    THEN SubSeq(token_repr, 1, Len(token_repr) - 1)
    ELSE token_repr

\* The characters of the class [0-9] of the pattern
PatternDigits == {"0", "1", "2", "3", "4", "5", "6", "7", "8", "9"}

\* Lexer.match_identifier_name: re.match(r"[_a-zA-Z][_a-zA-Z0-9]*$", ...)
match_identifier_name(token_repr) ==
    LET name == BeforeDollar(token_repr)
    IN  IF /\ name # <<>>
           /\ name[1] \in Letters \cup {"_"}
           /\ \A i \in 2..Len(name) : name[i] \in Letters \cup PatternDigits \cup {"_"}
        THEN Some(Join(token_repr)) ELSE None

\* The outcome of add_chunk: the token list, or the error raised
ChunkOk(toks) == [ok |-> TRUE, tokens |-> toks, err |-> NoError]

ChunkFail(err) == [ok |-> FALSE, tokens |-> <<>>, err |-> err]

\* Lexer.add_chunk
add_chunk(kw_kinds, chunk, toks) ==
    IF chunk = <<>> THEN ChunkOk(toks)
    ELSE IF match_keyword_kind(kw_kinds, chunk) # None
    THEN ChunkOk(Append(toks, Token(match_keyword_kind(kw_kinds, chunk)[1], None)))
    ELSE IF match_number_string(chunk) # None
    THEN ChunkOk(Append(toks, Token(number, match_number_string(chunk))))
    ELSE IF match_identifier_name(chunk) # None
    THEN ChunkOk(Append(toks, Token(identifier, match_identifier_name(chunk))))
    ELSE ChunkFail(CompilerError_init(
             "unrecognized token at '" \o Join(chunk) \o "'", None, None))

\* A variant of SymbolBranch that appends the symbol before the chunk.
SymbolBranchSymbolFirst(kw_kinds, chunk, toks, symbol_kind) ==
    add_chunk(kw_kinds, chunk, Append(toks, Token(symbol_kind, None)))

\* tokenize_line, lines 103-106: flush the chunk, then append the symbol
SymbolBranch(kw_kinds, chunk, toks, symbol_kind) ==
    LET r == add_chunk(kw_kinds, chunk, toks)
    IN  IF r.ok THEN ChunkOk(Append(r.tokens, Token(symbol_kind, None))) ELSE r

\* A variant of AfterSymbol that steps one character past the spelling.
AfterSymbolOvershoot(at, symbol_kind) == at + Len(symbol_kind.text_repr) + 1

\* tokenize_line, line 108: chunk_end + len(symbol_kind.text_repr)
AfterSymbol(at, symbol_kind) == at + Len(symbol_kind.text_repr)

\* tokenize, lines 68-69: the error with the line's file name and number
Decorate(e, line_with_info) ==
    [e EXCEPT !.file_name = Some(line_with_info.file_name),
              !.line_num = Some(line_with_info.line_num)]

\* tokenize, lines 72-75: the line's tokens, stamped
Stamp(toks, line_with_info) ==
    [i \in 1..Len(toks) |->
        [toks[i] EXCEPT !.file_name = Some(line_with_info.file_name),
                        !.line_num = Some(line_with_info.line_num)]]

(***************************************************************************)
(* Inputs                                                                  *)
(***************************************************************************)
MaxLineNum == 2

MaxErrTokens == 2

MaxLineLen == 3

MaxLines == 2

\* All sequences over S of length at most n
SeqsUpTo(S, n) == UNION {[1..k -> S] : k \in 0..n}

\* Symbol kinds: <, << and <<= share a prefix; plus and unary_plus share a
\* spelling.
lt == TokenKind("lt", <<"<">>)

lshift == TokenKind("lshift", <<"<", "<">>)

lshift_eq == TokenKind("lshift_eq", <<"<", "<", "=">>)

plus == TokenKind("plus", <<"+">>)

unary_plus == TokenKind("unary_plus", <<"+">>)

if_kw == TokenKind("if", <<"i", "f">>)

semicolon == TokenKind("semicolon", <<";">>)

close_brack == TokenKind("close_brack", <<"}">>)

\* The lists of symbol kinds a Lexer is constructed with: <, << and <<= in
\* every order, and two lists in which two kinds share a spelling.
RegisteredSymbolLists ==
    {<<a, b, c, plus>> : <<a, b, c>> \in
        {t \in {lt, lshift, lshift_eq} \X {lt, lshift, lshift_eq} \X {lt, lshift, lshift_eq} :
            t[1] # t[2] /\ t[1] # t[3] /\ t[2] # t[3]}}
    \cup {<<plus, unary_plus, lt>>, <<unary_plus, lt, plus>>}

RegisteredKeywordLists == {<<if_kw>>}

LexChars == {"i", "f", "1", "²", "+", "<", "=", " "}

ExampleLines ==
    {<<"a", "+", "b">>, <<"1", "2", "3", "a", "b", "c">>, <<"a", "", "b">>, <<"a", " ", "1">>}

LexLines == SeqsUpTo(LexChars, MaxLineLen) \cup ExampleLines

\* The lines of the files of more than one line
FileLines == {<<>>, <<"i", "f">>, <<"1", "f">>, <<"i", " ", "=">>, <<"+", " ", "1">>}

LineWithInfo(text, file_name, line_num) ==
    [text |-> text, file_name |-> file_name, line_num |-> line_num]

\* The arguments of tokenize: no line, one line of LexLines, or several lines
\* of FileLines numbered from 1
CodeLines ==
    {<<>>}
    \cup {<<LineWithInfo(l, "main.c", 1)>> : l \in LexLines}
    \cup UNION {{[i \in 1..k |-> LineWithInfo(f[i], "main.c", i)] : f \in [1..k -> FileLines]}
                    : k \in 2..MaxLines}

\* Tokens as the lexer stamps them, for the errors built from tokens
ErrTokenPool ==
    {[kind |-> semicolon, content |-> None, file_name |-> Some("main.c"), line_num |-> Some(1)],
     [kind |-> number, content |-> Some("15"), file_name |-> Some("main.c"), line_num |-> Some(2)],
     [kind |-> close_brack, content |-> None, file_name |-> Some("lib.c"), line_num |-> Some(3)]}

ErrTokenLists == SeqsUpTo(ErrTokenPool, MaxErrTokens)

ErrIndexes == -1..(MaxErrTokens + 1)

\* The selectors: AT, GOT, AFTER and two that are none of them
MessageTypes == {AT, GOT, AFTER, 0, 4}

ErrMessages == {"expected semicolon"}

ErrDescrips == {"bad"}

\* File names are names of files that were read, line numbers count from 1
ErrFileNames == {None, Some("main.c")}

ErrLineNums == {None} \cup {Some(k) : k \in 1..MaxLineNum}

(***************************************************************************)
(* The three components at rest                                            *)
(***************************************************************************)
NoArgs == [descrip |-> "", file_name |-> None, line_num |-> None, message |-> "",
           index |-> 0, tokens |-> <<>>, message_type |-> 0]

ErrIdle ==
    /\ e_op = "none"
    /\ e_args = NoArgs
    /\ e_res = NoError
    /\ e_str = None

LexIdle ==
    /\ symbol_kinds = <<>>
    /\ keyword_kinds = <<>>
    /\ registered = <<>>
    /\ code_lines = <<>>
    /\ li = 0
    /\ chunk_start = 0
    /\ chunk_end = 0
    /\ tokens = <<>>
    /\ all_tokens = <<>>
    /\ l_pc = "idle"
    /\ l_ret = None
    /\ l_err = NoError

NoOutcome == [ok |-> FALSE, node |-> [type |-> "none"], index |-> 0,
              err |-> NoError, log |-> <<>>]

ParseIdle ==
    /\ p_tokens = <<>>
    /\ p_op = "none"
    /\ p_index = 0
    /\ p_res = NoOutcome

(***************************************************************************)
(* errors.py as a state machine: build an error, then render it            *)
(***************************************************************************)
InitErr == ErrIdle /\ LexIdle /\ ParseIdle

\* CompilerError(descrip, file_name, line_num)
NewCompilerError ==
    /\ e_op = "none"
    /\ \E d \in ErrDescrips, f \in ErrFileNames, n \in ErrLineNums :
        /\ e_args' = [NoArgs EXCEPT !.descrip = d, !.file_name = f, !.line_num = n]
        /\ e_res' = CompilerError_init(d, f, n)
    /\ e_op' = "CompilerError"
    /\ UNCHANGED <<e_str, lvars, pvars>>

\* token_error("bad token '{}'", token)
NewTokenError ==
    /\ e_op = "none"
    /\ \E t \in ErrTokenPool :
        /\ e_args' = [NoArgs EXCEPT !.tokens = <<t>>]
        /\ e_res' = token_error("bad token '", "'", t)
    /\ e_op' = "token_error"
    /\ UNCHANGED <<e_str, lvars, pvars>>

\* ParserError(message, index, tokens, message_type)
NewParserError ==
    /\ e_op = "none"
    /\ \E m \in ErrMessages, i \in ErrIndexes, ts \in ErrTokenLists, t \in MessageTypes :
        /\ e_args' = [NoArgs EXCEPT !.message = m, !.index = i, !.tokens = ts,
                                    !.message_type = t]
        /\ e_res' = ParserError_init(m, i, ts, t)
    /\ e_op' = "ParserError"
    /\ UNCHANGED <<e_str, lvars, pvars>>

\* str(e), of an error that was built
Str ==
    /\ e_res.exc \in {"CompilerError", "ParserError"}
    /\ e_str = None
    /\ e_str' = Some(CompilerError_str(e_res))
    /\ UNCHANGED <<e_op, e_args, e_res, lvars, pvars>>

NextErr == NewCompilerError \/ NewTokenError \/ NewParserError \/ Str

SpecErr == InitErr /\ [][NextErr]_vars

(***************************************************************************)
(* Lexer.tokenize as a state machine: one step per iteration of the loop   *)
(* of tokenize_line, one per end of line                                   *)
(***************************************************************************)
\* Lexer(symbol_kinds, keyword_kinds), about to run tokenize(code_lines)
InitLex ==
    /\ ErrIdle /\ ParseIdle
    /\ registered \in RegisteredSymbolLists
    /\ symbol_kinds = SortKinds(registered)
    /\ keyword_kinds \in {SortKinds(k) : k \in RegisteredKeywordLists}
    /\ code_lines \in CodeLines
    /\ li = 0
    /\ chunk_start = 0
    /\ chunk_end = 0
    /\ tokens = <<>>
    /\ all_tokens = <<>>
    /\ l_pc = "call"
    /\ l_ret = None
    /\ l_err = NoError

line == code_lines[li].text

\* tokenize, lines 61-62: all_tokens = [], then the first line if there is one
Tokenize ==
    /\ l_pc = "call"
    /\ IF code_lines = <<>>
       THEN l_pc' = "done" /\ l_ret' = Some(<<>>) /\ li' = li
       ELSE l_pc' = "scan" /\ l_ret' = l_ret /\ li' = 1
    /\ UNCHANGED <<symbol_kinds, keyword_kinds, registered, code_lines, chunk_start,
                   chunk_end, tokens, all_tokens, l_err, evars, pvars>>

\* tokenize, lines 67-70: tokenize_line raised e
RaiseFromLine(e) ==
    /\ l_err' = Decorate(e, code_lines[li])
    /\ l_pc' = "raised"
    /\ UNCHANGED <<chunk_start, chunk_end, tokens, all_tokens, li, l_ret>>

\* tokenize_line, lines 102-109: a symbol kind matches at chunk_end
ScanSymbol ==
    /\ l_pc = "scan"
    /\ chunk_end < Len(line)
    /\ match_symbol_kind_at(symbol_kinds, line, chunk_end) # None
    /\ LET symbol_kind == match_symbol_kind_at(symbol_kinds, line, chunk_end)[1]
           r == SymbolBranch(keyword_kinds, Slice(line, chunk_start, chunk_end),
                             tokens, symbol_kind)
       IN  IF r.ok
           THEN /\ tokens' = r.tokens
                /\ chunk_start' = AfterSymbol(chunk_end, symbol_kind)
                /\ chunk_end' = AfterSymbol(chunk_end, symbol_kind)
                /\ UNCHANGED <<all_tokens, li, l_pc, l_ret, l_err>>
           ELSE RaiseFromLine(r.err)
    /\ UNCHANGED <<symbol_kinds, keyword_kinds, registered, code_lines, evars, pvars>>

\* tokenize_line, lines 111-114: no symbol matches and the character is a space
ScanSpace ==
    /\ l_pc = "scan"
    /\ chunk_end < Len(line)
    /\ match_symbol_kind_at(symbol_kinds, line, chunk_end) = None
    /\ IsSpace(line[chunk_end + 1])
    /\ LET r == add_chunk(keyword_kinds, Slice(line, chunk_start, chunk_end), tokens)
       IN  IF r.ok
           THEN /\ tokens' = r.tokens
                /\ chunk_start' = chunk_end + 1
                /\ chunk_end' = chunk_end + 1
                /\ UNCHANGED <<all_tokens, li, l_pc, l_ret, l_err>>
           ELSE RaiseFromLine(r.err)
    /\ UNCHANGED <<symbol_kinds, keyword_kinds, registered, code_lines, evars, pvars>>

\* tokenize_line, lines 116-117: the character joins the chunk
ScanExtend ==
    /\ l_pc = "scan"
    /\ chunk_end < Len(line)
    /\ match_symbol_kind_at(symbol_kinds, line, chunk_end) = None
    /\ ~IsSpace(line[chunk_end + 1])
    /\ chunk_end' = chunk_end + 1
    /\ UNCHANGED <<symbol_kinds, keyword_kinds, registered, code_lines, li, chunk_start,
                   tokens, all_tokens, l_pc, l_ret, l_err, evars, pvars>>

\* tokenize_line, lines 120-122, and tokenize, lines 72-76: the last flush,
\* the stamping of the line's tokens, then the next line or the return
EndLine ==
    /\ l_pc = "scan"
    /\ chunk_end >= Len(line)
    /\ LET r == add_chunk(keyword_kinds, Slice(line, chunk_start, chunk_end), tokens)
           all == all_tokens \o Stamp(r.tokens, code_lines[li])
       IN  IF r.ok
           THEN /\ all_tokens' = all
                /\ tokens' = <<>>
                /\ chunk_start' = 0
                /\ chunk_end' = 0
                /\ l_err' = l_err
                /\ IF li < Len(code_lines)
                   THEN li' = li + 1 /\ l_pc' = l_pc /\ l_ret' = l_ret
                   ELSE li' = li /\ l_pc' = "done" /\ l_ret' = Some(all)
           ELSE RaiseFromLine(r.err)
    /\ UNCHANGED <<symbol_kinds, keyword_kinds, registered, code_lines, evars, pvars>>

NextLex == Tokenize \/ ScanSymbol \/ ScanSpace \/ ScanExtend \/ EndLine

SpecLex == InitLex /\ [][NextLex]_vars

\* tokenize is one sequential call: a step that can be taken is taken
SpecLexFair == SpecLex /\ WF_vars(NextLex)

(***************************************************************************)
(* Properties of errors.py, under SpecErr                                  *)
(***************************************************************************)
BuiltParserError == e_op = "ParserError"

KnownType == e_args.message_type \in {AT, GOT, AFTER}

\* C3: constructing a ParserError with an empty token sequence succeeds, for
\* every index and each of AT, GOT and AFTER, and gives the description
\* "<message> at beginning of source" with no file name and no line number.
C3_EmptySequenceAtBeginningOfSource ==
    (BuiltParserError /\ e_args.tokens = <<>> /\ KnownType) =>
        /\ e_res.exc = "ParserError"
        /\ e_res.descrip = e_args.message \o " at beginning of source"
        /\ e_res.file_name = None
        /\ e_res.line_num = None

\* The form and the anchor (1-based position in the tokens) that C4 states
C4Form ==
    IF e_args.index >= Len(e_args.tokens) THEN AFTER
    ELSE IF e_args.index <= 0 /\ e_args.message_type = AFTER THEN GOT
    ELSE e_args.message_type

C4Anchor ==
    IF e_args.index >= Len(e_args.tokens) THEN Len(e_args.tokens)
    ELSE IF e_args.index <= 0 THEN 1
    ELSE IF e_args.message_type = AFTER THEN e_args.index
    ELSE e_args.index + 1

C4Word == IF C4Form = AT THEN " at '" ELSE IF C4Form = GOT THEN ", got '" ELSE " after '"

\* C4: for a non-empty token sequence of length n and any index, the
\* construction reads only inside the sequence; index >= n gives the AFTER
\* form on tokens[n-1] whatever style was asked for, index <= 0 turns AFTER
\* into GOT and anchors on tokens[0], otherwise AT and GOT anchor on
\* tokens[index] and AFTER on tokens[index-1]; the file name and line number
\* are the anchor's.
C4_AnchorWithinSequence ==
    (BuiltParserError /\ e_args.tokens # <<>> /\ KnownType) =>
        /\ e_res.exc = "ParserError"
        /\ ParserError_read(e_args.index, e_args.tokens, e_args.message_type)
               = Some(C4Anchor - 1)
        /\ C4Anchor \in 1..Len(e_args.tokens)
        /\ e_res.descrip = e_args.message \o C4Word
                               \o TokenStr(e_args.tokens[C4Anchor]) \o "'"
        /\ e_res.file_name = e_args.tokens[C4Anchor].file_name
        /\ e_res.line_num = e_args.tokens[C4Anchor].line_num
        /\ e_res.amount_parsed = Some(e_args.index)

\* An index past the end with GOT asked for and the AFTER form given, and an
\* index below zero with AFTER asked for: both boundary rules at work.
C4_Witness ==
    /\ BuiltParserError
    /\ Len(e_args.tokens) = 2
    /\ e_args.index = 3
    /\ e_args.message_type = GOT
    /\ e_res.descrip = "expected semicolon after '15'"
    /\ e_res.line_num = Some(2)

\* C5 as stated: a selector that is none of AT, GOT, AFTER makes the
\* construction raise ValueError, for every token sequence and every index.
C5_UnknownTypeAlwaysValueError ==
    (BuiltParserError /\ ~KnownType) => e_res.exc = "ValueError"

\* C5 as amended: a selector that is none of AT, GOT, AFTER makes the
\* construction raise ValueError exactly when index < len(tokens); with
\* index >= len(tokens) the selector is replaced by AFTER before it is
\* examined and no ValueError is raised.
C5_UnknownTypeValueErrorBelowEnd ==
    (BuiltParserError /\ ~KnownType) =>
        (e_res.exc = "ValueError" <=> e_args.index < Len(e_args.tokens))

C5_Witness ==
    /\ BuiltParserError
    /\ ~KnownType
    /\ e_args.tokens # <<>>
    /\ e_args.index < Len(e_args.tokens)
    /\ e_res.exc = "ValueError"

\* C6: str() of an error has three forms chosen by the context fields that
\* are present: "<file>:<line>: error: <descrip>" with both, "<file>: error:
\* <descrip>" with the file name alone, "shivyc: error: <descrip>" with none.
C6_ThreeForms ==
    (e_str # None) =>
        LET f == e_res.file_name
            n == e_res.line_num
        IN  /\ (f # None /\ n # None) =>
                   e_str[1] = f[1] \o ":" \o ToString(n[1]) \o ": error: " \o e_res.descrip
            /\ (f # None /\ n = None) => e_str[1] = f[1] \o ": error: " \o e_res.descrip
            /\ (f = None /\ n = None) => e_str[1] = "shivyc: error: " \o e_res.descrip

C6_Witness ==
    /\ e_op = "CompilerError"
    /\ e_res.file_name = Some("main.c")
    /\ e_res.line_num = None
    /\ e_str = Some("main.c: error: bad")

(***************************************************************************)
(* Properties of lexer.py, under SpecLex and SpecLexFair                   *)
(***************************************************************************)
\* The positions, in the list the Lexer was given, of the kinds whose
\* spelling matches text at position at
MatchingKinds(text, at) ==
    {j \in 1..Len(registered) : StartsWith(text, registered[j].text_repr, at)}

\* Among them the longest spelling, and of several that long the first given
LongestFirst(text, at) ==
    CHOOSE j \in MatchingKinds(text, at) :
        \A k \in MatchingKinds(text, at) :
            \/ Len(registered[k].text_repr) < Len(registered[j].text_repr)
            \/ /\ Len(registered[k].text_repr) = Len(registered[j].text_repr)
               /\ j <= k

Range(seq) == {seq[i] : i \in 1..Len(seq)}

\* An iteration of the loop of tokenize_line that does not raise
Iteration == l_pc = "scan" /\ chunk_end < Len(line) /\ l_pc' = "scan"

C1Step ==
    (Iteration /\ MatchingKinds(line, chunk_end) # {}) =>
        /\ Len(tokens') > 0
        /\ tokens'[Len(tokens')].kind = registered[LongestFirst(line, chunk_end)]
        /\ tokens'[Len(tokens')].content = None

C1Example ==
    (/\ l_pc' = "done"
     /\ l_pc # "done"
     /\ code_lines = <<LineWithInfo(<<"<", "<", "=">>, "main.c", 1)>>
     /\ {lt, lshift, lshift_eq} \subseteq Range(registered)) =>
        l_ret' = Some(<<[kind |-> lshift_eq, content |-> None,
                         file_name |-> Some("main.c"), line_num |-> Some(1)]>>)

\* C1: at each scan position where one or more registered spellings match,
\* tokenize_line emits the kind with the longest matching spelling, and of
\* several that long the one registered first; with <, << and <<= registered
\* in any order, the line "<<=" gives exactly one token, of kind <<=.
C1_LongestSymbolMatch == [][C1Step /\ C1Example]_vars

\* "<<=" was tokenized by a Lexer given < before << before <<=
C1_Witness ==
    /\ l_pc = "done"
    /\ code_lines = <<LineWithInfo(<<"<", "<", "=">>, "main.c", 1)>>
    /\ registered = <<lt, lshift, lshift_eq, plus>>
    /\ Len(l_ret[1]) = 1
    /\ l_ret[1][1].kind = lshift_eq

\* The decimal digits
DecimalDigits == {"0", "1", "2", "3", "4", "5", "6", "7", "8", "9"}

\* A chunk that is no keyword spelling, not all decimal digits, not
\* identifier-shaped
Unclassifiable(chunk) ==
    /\ chunk # <<>>
    /\ \A i \in 1..Len(keyword_kinds) : keyword_kinds[i].text_repr # chunk
    /\ \E i \in 1..Len(chunk) : chunk[i] \notin DecimalDigits
    /\ \/ chunk[1] \notin Letters \cup {"_"}
       \/ \E i \in 2..Len(chunk) : chunk[i] \notin Letters \cup DecimalDigits \cup {"_"}

\* The length of the longest registered spelling matching text at position at
MatchLen(text, at) == Len(registered[LongestFirst(text, at)].text_repr)

RECURSIVE FirstBadChunk(_, _, _)
\* The first unclassifiable chunk of a line, None when it has none: chunks
\* are the runs between spaces and matched symbol spellings.
FirstBadChunk(text, from, at) ==
    LET chunk == Slice(text, from, at)
    IN  IF at >= Len(text)
        THEN IF Unclassifiable(chunk) THEN Some(chunk) ELSE None
        ELSE IF MatchingKinds(text, at) # {}
        THEN IF Unclassifiable(chunk) THEN Some(chunk)
             ELSE FirstBadChunk(text, at + MatchLen(text, at), at + MatchLen(text, at))
        ELSE IF IsSpace(text[at + 1])
        THEN IF Unclassifiable(chunk) THEN Some(chunk)
             ELSE FirstBadChunk(text, at + 1, at + 1)
        ELSE FirstBadChunk(text, from, at + 1)

BadLines == {j \in 1..Len(code_lines) : FirstBadChunk(code_lines[j].text, 0, 0) # None}

FirstBadLine == CHOOSE j \in BadLines : \A k \in BadLines : j <= k

\* tokenize fails on the first line that holds an unclassifiable chunk
FailsOnFirstBadLine ==
    (BadLines # {}) =>
        /\ li <= FirstBadLine
        /\ l_pc # "done"
        /\ l_ret = None
        /\ (l_pc = "raised") =>
            /\ li = FirstBadLine
            /\ l_err = [exc |-> "CompilerError",
                        descrip |-> "unrecognized token at '"
                            \o Join(FirstBadChunk(code_lines[FirstBadLine].text, 0, 0)[1])
                            \o "'",
                        file_name |-> Some(code_lines[FirstBadLine].file_name),
                        line_num |-> Some(code_lines[FirstBadLine].line_num),
                        amount_parsed |-> None]

\* C2: if some line holds a non-empty chunk that is no keyword spelling, not
\* all decimal digits and not identifier-shaped, tokenize raises a
\* CompilerError "unrecognized token at '<chunk>'" with the file name and
\* line number of the first such line; no later line is processed and no
\* tokens are returned.
C2_FirstBadLineFailsTokenize == FailsOnFirstBadLine

\* The same for lines in which every digit is a decimal digit
C2_OnDecimalDigits ==
    (\A j \in 1..Len(code_lines) : Range(code_lines[j].text) \cap Digits \subseteq DecimalDigits)
        => FailsOnFirstBadLine

\* The second line fails after the first gave tokens, none of them returned
C2_OnDecimalDigitsWitness ==
    /\ l_pc = "raised"
    /\ li = 2
    /\ all_tokens # <<>>
    /\ l_ret = None
    /\ l_err.descrip = "unrecognized token at '1f'"
    /\ l_err.line_num = Some(2)

NoSpace(text) == SelectSeq(text, LAMBDA c : ~IsSpace(c))

RECURSIVE Spelled(_)
\* The spellings of a list of tokens, one after the other
Spelled(toks) == IF toks = <<>> THEN "" ELSE TokenStr(Head(toks)) \o Spelled(Tail(toks))

RECURSIVE SourceText(_)
\* The lines one after the other, without their spaces
SourceText(lines) ==
    IF lines = <<>> THEN "" ELSE Join(NoSpace(Head(lines).text)) \o SourceText(Tail(lines))

\* C8: for lines whose chunks are all classifiable, a symbol spelling that
\* matches at a scan position becomes its own token and ends the pending
\* chunk: the pending chunk never holds a space or a position where a symbol
\* matches, the tokens spell the source left to right without its spaces,
\* and "a+b" gives identifier a, symbol +, identifier b.
C8_SymbolsSplitChunks ==
    /\ (l_pc = "scan") =>
        /\ Spelled(tokens) \o Join(Slice(line, chunk_start, chunk_end))
               = Join(NoSpace(Slice(line, 0, chunk_end)))
        /\ \A q \in chunk_start..(chunk_end - 1) :
               MatchingKinds(line, q) = {} /\ ~IsSpace(line[q + 1])
    /\ (l_pc = "done") =>
        /\ Spelled(l_ret[1]) = SourceText(code_lines)
        /\ \A i \in 1..Len(l_ret[1]) : Spelled(<<l_ret[1][i]>>) # ""
        /\ (code_lines = <<LineWithInfo(<<"a", "+", "b">>, "main.c", 1)>>) =>
            /\ Len(l_ret[1]) = 3
            /\ l_ret[1][1].kind = identifier /\ l_ret[1][1].content = Some("a")
            /\ l_ret[1][2].kind.text_repr = <<"+">> /\ l_ret[1][2].content = None
            /\ l_ret[1][3].kind = identifier /\ l_ret[1][3].content = Some("b")

C8_Witness ==
    /\ l_pc = "done"
    /\ code_lines = <<LineWithInfo(<<"a", "+", "b">>, "main.c", 1)>>
    /\ Len(l_ret[1]) = 3

\* C10: tokenize_line ends, by returning or by raising: every iteration of
\* its loop moves chunk_end forward, and 0 <= chunk_start <= chunk_end <=
\* len(line) at the start of every iteration and at the last flush.
C10_TokenizeLineTerminates ==
    /\ [](l_pc = "scan" =>
            0 <= chunk_start /\ chunk_start <= chunk_end /\ chunk_end <= Len(line))
    /\ [][(Iteration /\ li' = li) => chunk_end' > chunk_end]_vars
    /\ <>(l_pc \in {"done", "raised"})

\* A line of three characters went through the symbol, space and chunk branches
C10_Witness ==
    /\ l_pc = "done"
    /\ code_lines = <<LineWithInfo(<<"i", " ", "+">>, "main.c", 1)>>
    /\ Len(l_ret[1]) = 2

(***************************************************************************)
(* parser/statement.py, with the parser utilities, the expression parser   *)
(* and the declaration parser it calls                                     *)
(***************************************************************************)
open_brack == TokenKind("open_brack", <<"{">>)

return_kw == TokenKind("return", <<"r", "e", "t", "u", "r", "n">>)

else_kw == TokenKind("else", <<"e", "l", "s", "e">>)

while_kw == TokenKind("while", <<"w", "h", "i", "l", "e">>)

int_kw == TokenKind("int", <<"i", "n", "t">>)

open_paren == TokenKind("open_paren", <<"(">>)

close_paren == TokenKind("close_paren", <<")">>)

NoNode == [type |-> "none"]

\* The outcome of a parsing function: (node, index) returned, or the
\* exception raised; log holds the errors it passed to log_error, in order.
Ok(node, index) ==
    [ok |-> TRUE, node |-> node, index |-> index, err |-> NoError, log |-> <<>>]

Fail(err) ==
    [ok |-> FALSE, node |-> NoNode, index |-> 0, err |-> err, log |-> <<>>]

\* The outcome r of a call made after the errors in log were logged
After(log, r) == [r EXCEPT !.log = log \o r.log]

\* except ParserError: the clause catches r's exception
Caught(r) == ~r.ok /\ r.err.exc = "ParserError"

\* log_error(e), after the callee's own logging
Logged(r) == r.log \o <<r.err>>

\* parser.utils.token_is
token_is(index, kind) ==
    /\ 0 <= index
    /\ index < Len(p_tokens)
    /\ p_tokens[index + 1].kind = kind

\* parser.utils.match_token
match_token(index, kind, message_type) ==
    IF token_is(index, kind) THEN Ok(NoNode, index + 1)
    ELSE Fail(ParserError_init("expected '" \o Join(kind.text_repr) \o "'",
                               index, p_tokens, message_type))

\* parser.utils.add_range: the node returned gets the range of its tokens
add_range(start, r) ==
    IF r.ok THEN [r EXCEPT !.node = [r.node EXCEPT !.r = <<start, r.index - 1>>]] ELSE r

\* parser.expression.parse_expression: a number or an identifier
parse_expression(index) ==
    add_range(index,
        IF token_is(index, number)
        THEN Ok([type |-> "Number", content |-> p_tokens[index + 1].content, r |-> <<>>],
                index + 1)
        ELSE IF token_is(index, identifier)
        THEN Ok([type |-> "Identifier", content |-> p_tokens[index + 1].content, r |-> <<>>],
                index + 1)
        ELSE Fail(ParserError_init("expected expression", index, p_tokens, GOT)))

\* A call that returned r, and what the caller does next with what it
\* returned; an exception of the call leaves the caller at once.
Then(r, rest(_)) == IF r.ok THEN After(r.log, rest(r)) ELSE r

\* try: r, except ParserError as e: log_error(e), and then other
Try(r, other) == IF Caught(r) THEN After(Logged(r), other) ELSE r

\* parser.declaration.parse_declaration: int <identifier> ;
parse_declaration(index) ==
    add_range(index,
        Then(match_token(index, int_kw, GOT), LAMBDA m1 :
        Then(match_token(m1.index, identifier, AFTER), LAMBDA m2 :
        Then(match_token(m2.index, semicolon, AFTER), LAMBDA m3 :
        Ok([type |-> "Declaration", name |-> p_tokens[m1.index + 1].content, r |-> <<>>],
           m3.index)))))

\* parse_return
parse_return(index) ==
    add_range(index,
        Then(match_token(index, return_kw, GOT), LAMBDA m1 :
        Then(parse_expression(m1.index), LAMBDA e :
        Then(match_token(e.index, semicolon, AFTER), LAMBDA m2 :
        Ok([type |-> "Return", return_value |-> e.node, r |-> <<>>], m2.index)))))

\* parse_expr_statement
parse_expr_statement(index) ==
    add_range(index,
        Then(parse_expression(index), LAMBDA e :
        Then(match_token(e.index, semicolon, AFTER), LAMBDA m :
        Ok([type |-> "ExprStatement", expr |-> e.node, r |-> <<>>], m.index))))

(***************************************************************************)
(* The functions below call one another, always at a larger index than    *)
(* their own. T holds, for each larger index j, at T[j + 1], the outcome   *)
(* of parse_statement(j) and of the loop of parse_compound_statement       *)
(* entered at j with no nodes yet.                                         *)
(***************************************************************************)
StatementAt(T, index) == T[index + 1].statement

ItemsAt(T, index) == T[index + 1].items

\* parse_if_statement, lines 101-110: the else branch, if there is one
parse_else(T, conditional, statement) ==
    IF ~token_is(statement.index, else_kw)
    THEN Ok([type |-> "IfStatement", conditional |-> conditional.node,
             statement |-> statement.node, else_statement |-> None, r |-> <<>>],
            statement.index)
    ELSE Then(match_token(statement.index, else_kw, GOT), LAMBDA m :
         Then(StatementAt(T, m.index), LAMBDA else_statement :
         Ok([type |-> "IfStatement", conditional |-> conditional.node,
             statement |-> statement.node,
             else_statement |-> Some(else_statement.node), r |-> <<>>],
            else_statement.index)))

\* parse_if_statement
parse_if_statement_in(T, index) ==
    add_range(index,
        Then(match_token(index, if_kw, GOT), LAMBDA m1 :
        Then(match_token(m1.index, open_paren, AFTER), LAMBDA m2 :
        Then(parse_expression(m2.index), LAMBDA conditional :
        Then(match_token(conditional.index, close_paren, AFTER), LAMBDA m3 :
        Then(StatementAt(T, m3.index), LAMBDA statement :
        parse_else(T, conditional, statement)))))))

\* parse_while_statement
parse_while_statement_in(T, index) ==
    add_range(index,
        Then(match_token(index, while_kw, GOT), LAMBDA m1 :
        Then(match_token(m1.index, open_paren, AFTER), LAMBDA m2 :
        Then(parse_expression(m2.index), LAMBDA conditional :
        Then(match_token(conditional.index, close_paren, AFTER), LAMBDA m3 :
        Then(StatementAt(T, m3.index), LAMBDA statement :
        Ok([type |-> "WhileStatement", conditional |-> conditional.node,
            statement |-> statement.node, r |-> <<>>],
           statement.index)))))))

\* parse_compound_statement
parse_compound_statement_in(T, index) ==
    add_range(index,
        Then(match_token(index, open_brack, GOT), LAMBDA m1 :
        Then(ItemsAt(T, m1.index), LAMBDA items :
        Then(match_token(items.index, close_brack, GOT), LAMBDA m2 :
        Ok([type |-> "Compound", nodes |-> items.node, r |-> <<>>], m2.index)))))

\* parse_statement
parse_statement_in(T, index) ==
    add_range(index,
        Try(parse_compound_statement_in(T, index),
        Try(parse_return(index),
        Try(parse_if_statement_in(T, index),
        Try(parse_while_statement_in(T, index),
        parse_expr_statement(index))))))

\* nodes.append(node), continue: the item's node comes before the later ones
Continue(node, later) == Ok(<<node>> \o later.node, later.index)

\* parse_compound_statement, lines 54-70: the loop over the block items,
\* entered at index, statement being the outcome of parse_statement(index).
\* The outcome holds the nodes in node and the index where the loop broke in
\* index; it fails only with an exception no clause of the loop catches.
block_items_in(T, index, statement) ==
    IF statement.ok
    THEN Then(statement, LAMBDA st :
         Then(ItemsAt(T, st.index), LAMBDA later : Continue(st.node, later)))
    ELSE Try(statement,
             IF parse_declaration(index).ok
             THEN Then(parse_declaration(index), LAMBDA d :
                  Then(ItemsAt(T, d.index), LAMBDA later : Continue(d.node, later)))
             ELSE Try(parse_declaration(index), Ok(<<>>, index)))

Entry(T, index) ==
    [statement |-> parse_statement_in(T, index),
     items |-> block_items_in(T, index, parse_statement_in(T, index))]

RECURSIVE BuildTable(_, _)
\* The table for the indexes from index down to 0, T holding the larger ones
BuildTable(index, T) ==
    IF index < 0 THEN T
    ELSE BuildTable(index - 1, [T EXCEPT ![index + 1] = Entry(T, index)])

\* The outcomes at every index of the tokens, from the end backwards
Table ==
    BuildTable(Len(p_tokens),
               [j \in 1..(Len(p_tokens) + 1) |-> [statement |-> NoOutcome, items |-> NoOutcome]])

parse_statement(index) == parse_statement_in(Table, index)

parse_compound_statement(index) == parse_compound_statement_in(Table, index)

parse_if_statement(index) == parse_if_statement_in(Table, index)

parse_while_statement(index) == parse_while_statement_in(Table, index)

(***************************************************************************)
(* The statement parser as a state machine: one call on a token sequence   *)
(***************************************************************************)
MaxTokens == 3

\* A token of each kind, as the lexer gives it on line line_num of main.c
Tok(kind, line_num) ==
    [kind |-> kind,
     content |-> IF kind = number THEN Some("1")
                 ELSE IF kind = identifier THEN Some("x") ELSE None,
     file_name |-> Some("main.c"), line_num |-> Some(line_num)]

\* The tokens of a sequence of kinds, one per line
Toks(kinds) == [i \in 1..Len(kinds) |-> Tok(kinds[i], i)]

ParseKinds ==
    {open_brack, close_brack, return_kw, if_kw, open_paren, close_paren, semicolon, number}

ExamplePrograms ==
    {<<open_brack, return_kw, number, semicolon, close_brack>>,
     <<if_kw, open_paren, number, close_paren, return_kw, number, semicolon,
       else_kw, return_kw, number, semicolon>>,
     <<if_kw, open_paren, number, close_paren, open_brack, number, semicolon,
       close_brack, else_kw>>,
     <<while_kw, open_paren, number, close_paren, identifier, semicolon>>,
     <<while_kw, open_paren, number, close_paren, open_brack, close_brack>>,
     <<return_kw, number, close_brack>>,
     <<open_brack, int_kw, identifier, semicolon, identifier, semicolon, close_brack>>,
     <<open_brack, int_kw, identifier, semicolon, return_kw, identifier, semicolon>>,
     <<open_brack, number, semicolon, int_kw, close_brack>>,
     <<open_brack, open_brack, close_brack, close_brack>>,
     <<open_brack, if_kw, open_paren, number, close_paren, number, semicolon,
       int_kw, identifier, semicolon, close_brack>>}

\* The token sequences parsed: every sequence of at most MaxTokens tokens of
\* ParseKinds, the empty one included, and the example programs
TokenLists == {Toks(k) : k \in SeqsUpTo(ParseKinds, MaxTokens) \cup ExamplePrograms}

InitParse ==
    /\ ErrIdle /\ LexIdle
    /\ p_tokens \in TokenLists
    /\ p_op = "none"
    /\ p_index = 0
    /\ p_res = NoOutcome

\* A call of a parsing function at an index of the tokens, or at their end
Call(name, index, outcome) ==
    /\ p_op = "none"
    /\ p_op' = name
    /\ p_index' = index
    /\ p_res' = outcome
    /\ UNCHANGED <<p_tokens, evars, lvars>>

CallParseStatement ==
    \E index \in 0..Len(p_tokens) : Call("parse_statement", index, parse_statement(index))

CallParseCompoundStatement ==
    \E index \in 0..Len(p_tokens) :
        Call("parse_compound_statement", index, parse_compound_statement(index))

CallParseReturn ==
    \E index \in 0..Len(p_tokens) : Call("parse_return", index, parse_return(index))

CallParseIfStatement ==
    \E index \in 0..Len(p_tokens) :
        Call("parse_if_statement", index, parse_if_statement(index))

CallParseWhileStatement ==
    \E index \in 0..Len(p_tokens) :
        Call("parse_while_statement", index, parse_while_statement(index))

CallParseExprStatement ==
    \E index \in 0..Len(p_tokens) :
        Call("parse_expr_statement", index, parse_expr_statement(index))

NextParse ==
    \/ CallParseStatement
    \/ CallParseCompoundStatement
    \/ CallParseReturn
    \/ CallParseIfStatement
    \/ CallParseWhileStatement
    \/ CallParseExprStatement

SpecParse == InitParse /\ [][NextParse]_vars

(***************************************************************************)
(* Properties of parser/statement.py, under SpecParse                      *)
(***************************************************************************)
\* The five alternatives of parse_statement, each called at the same index
Alternatives(index) ==
    <<parse_compound_statement(index), parse_return(index), parse_if_statement(index),
      parse_while_statement(index), parse_expr_statement(index)>>

RECURSIVE LoggedUpTo(_, _)
\* What the first k alternatives log when each of them fails and is logged
LoggedUpTo(alts, k) ==
    IF k = 0 THEN <<>> ELSE LoggedUpTo(alts, k - 1) \o alts[k].log \o <<alts[k].err>>

FirstOk(alts) == CHOOSE k \in 1..5 : alts[k].ok /\ \A j \in 1..(k - 1) : ~alts[j].ok

\* parse_statement(p_index) gave what the claim says it gives
StatementAsClaimed ==
    LET alts == Alternatives(p_index)
    IN  IF \E k \in 1..5 : alts[k].ok
        THEN /\ p_res.ok
             /\ p_res.node = alts[FirstOk(alts)].node
             /\ p_res.index = alts[FirstOk(alts)].index
             /\ p_res.log = LoggedUpTo(alts, FirstOk(alts) - 1) \o alts[FirstOk(alts)].log
        ELSE /\ ~p_res.ok
             /\ p_res.err.exc = "ParserError"
             /\ p_res.err = alts[5].err
             /\ p_res.log = LoggedUpTo(alts, 4) \o alts[5].log
             /\ Len(p_res.log) >= 4

\* C7: parse_statement(index) tries compound, return, if, while and
\* expression statement in that order, each from the same index; the first
\* that succeeds gives the result, each failure of the first four is logged
\* and the next is tried, and when all five fail the ParserError raised is
\* the one parse_expr_statement raised, however far a logged one had parsed.
C7_LastAlternativeRaisedVerbatim ==
    (p_op = "parse_statement") => StatementAsClaimed

\* The same on a token sequence that is not empty, where every failure of a
\* parsing function is a ParserError.
C7_OnTokens ==
    (p_op = "parse_statement" /\ p_tokens # <<>>) => StatementAsClaimed

\* "return 1 }": the error raised parsed nothing, a logged one two tokens
C7_OnTokensWitness ==
    /\ p_op = "parse_statement"
    /\ ~p_res.ok
    /\ p_res.err.amount_parsed = Some(0)
    /\ \E k \in 1..Len(p_res.log) : p_res.log[k].amount_parsed = Some(2)

\* The error of a token of the given kind missing at index, in the GOT
\* style under the boundary rules of ParserError: on the token at index,
\* after the last token when index is at the end, at the beginning of the
\* source when there is no token.
GotError(kind, index) ==
    LET message == "expected '" \o Join(kind.text_repr) \o "'"
        n == Len(p_tokens)
    IN  IF n = 0
        THEN [exc |-> "ParserError", descrip |-> message \o " at beginning of source",
              file_name |-> None, line_num |-> None, amount_parsed |-> Some(index)]
        ELSE IF index >= n
        THEN [exc |-> "ParserError",
              descrip |-> message \o " after '" \o TokenStr(p_tokens[n]) \o "'",
              file_name |-> p_tokens[n].file_name, line_num |-> p_tokens[n].line_num,
              amount_parsed |-> Some(index)]
        ELSE [exc |-> "ParserError",
              descrip |-> message \o ", got '" \o TokenStr(p_tokens[index + 1]) \o "'",
              file_name |-> p_tokens[index + 1].file_name,
              line_num |-> p_tokens[index + 1].line_num,
              amount_parsed |-> Some(index)]

\* The block item at index: a statement, or else a declaration from the
\* same index
BlockItem(index) ==
    IF parse_statement(index).ok THEN parse_statement(index) ELSE parse_declaration(index)

RECURSIVE BlockEnd(_)
\* The index reached from index when no further block item parses
BlockEnd(index) ==
    IF BlockItem(index).ok THEN BlockEnd(BlockItem(index).index) ELSE index

RECURSIVE BlockNodes(_)
\* The nodes of the block items from index on, in source order
BlockNodes(index) ==
    IF BlockItem(index).ok
    THEN <<BlockItem(index).node>> \o BlockNodes(BlockItem(index).index)
    ELSE <<>>

\* parse_compound_statement(p_index) gave what the claim says it gives
CompoundAsClaimed ==
    IF ~token_is(p_index, open_brack)
    THEN ~p_res.ok /\ p_res.err = GotError(open_brack, p_index)
    ELSE LET end == BlockEnd(p_index + 1)
         IN  /\ ~parse_statement(end).ok /\ ~parse_declaration(end).ok
             /\ IF token_is(end, close_brack)
                THEN /\ p_res.ok
                     /\ p_res.index = end + 1
                     /\ p_res.node.type = "Compound"
                     /\ p_res.node.nodes = BlockNodes(p_index + 1)
                     /\ \A k \in 1..Len(p_res.node.nodes) :
                            p_res.node.nodes[k].r[1] =
                                IF k = 1 THEN p_index + 1
                                ELSE p_res.node.nodes[k - 1].r[2] + 1
                     /\ (p_res.node.nodes # <<>>) =>
                            p_res.node.nodes[Len(p_res.node.nodes)].r[2] = end - 1
                ELSE ~p_res.ok /\ p_res.err = GotError(close_brack, end)

\* C9: parse_compound_statement(index) fails with a GOT error if the token
\* at index is no opening brace; otherwise it parses block items one after
\* the other, each from where the one before ended, a statement first and a
\* declaration from the same index if that fails; the loop ends when both
\* fail, the closing brace is then required where the last item ended (GOT
\* error otherwise), and the Compound returned holds the items in source
\* order, next_index being one past the closing brace.
C9_CompoundBlockItems ==
    (p_op = "parse_compound_statement") => CompoundAsClaimed

\* The same on a token sequence that is not empty
C9_OnTokens ==
    (p_op = "parse_compound_statement" /\ p_tokens # <<>>) => CompoundAsClaimed

\* "{ int x ; x ; }": a declaration, then a statement, then the brace
C9_OnTokensWitness ==
    /\ p_op = "parse_compound_statement"
    /\ p_res.ok
    /\ Len(p_res.node.nodes) = 2
    /\ p_res.node.nodes[1].type = "Declaration"
    /\ p_res.node.nodes[2].type = "ExprStatement"
    /\ p_res.index = 7

====
